---------------------------- MODULE Spec2Model ----------------------------
(***************************************************************************)
(* Model of the multi-agent document processor:                            *)
(*   - src/agents.py : ExtractorAgent, SummarizerAgent, FieldExtractorAgent *)
(*                     and DocumentProcessor.process_document              *)
(*   - src/app.py    : save_uploaded_file, process_document and the        *)
(*                     Extract handler of main                             *)
(* Strings are sequences of one-character strings, so that strip, the two  *)
(* re.sub calls, the re.search span and json.loads are computed on the     *)
(* characters as the code computes them.                                   *)
(***************************************************************************)
EXTENDS Integers, Sequences, FiniteSets, TLC

(***************************************************************************)
(* Characters                                                              *)
(***************************************************************************)
\* str.strip() and the regex class \s (the ASCII part that TLA+ can write)
PyWhitespace == {" ", "\t", "\n", "\r", "\f"}

\* the whitespace json.decoder skips (WHITESPACE = [ \t\n\r]*)
JsonWhitespace == {" ", "\t", "\n", "\r"}

Digits == {"0", "1", "2", "3", "4", "5", "6", "7", "8", "9"}

HexDigits == Digits \cup {"a", "b", "c", "d", "e", "f", "A", "B", "C", "D", "E", "F"}

\* control characters that json.loads (strict) rejects inside a string
ControlChars == {"\t", "\n", "\r", "\f"}

MinOf(S) == CHOOSE x \in S : \A y \in S : x <= y

MaxOf(S) == CHOOSE x \in S : \A y \in S : y <= x

\* does the literal text pat occur in s at index i
MatchAt(s, i, pat) ==
    /\ i >= 1
    /\ i + Len(pat) - 1 <= Len(s)
    /\ \A k \in 1..Len(pat) : s[i + k - 1] = pat[k]

\* first index >= i of s that is not in the class ws (Len(s)+1 if none)
SkipClass(s, i, ws) ==
    CHOOSE j \in i..(Len(s) + 1) :
        /\ j = Len(s) + 1 \/ s[j] \notin ws
        /\ \A k \in i..(j - 1) : s[k] \in ws

\* last index <= i of s that is not in the class ws (0 if none)
SkipClassBack(s, i, ws) ==
    CHOOSE j \in 0..i :
        /\ j = 0 \/ s[j] \notin ws
        /\ \A k \in (j + 1)..i : s[k] \in ws

(***************************************************************************)
(* The sanitizer of FieldExtractorAgent.process (agents.py 105-116)        *)
(***************************************************************************)
\* result.strip()
Strip(s) ==
    SubSeq(s, SkipClass(s, 1, PyWhitespace), SkipClassBack(s, Len(s), PyWhitespace))

\* the backquote character; the TLA+ lexer does not accept it inside a string
\* literal, so the character is written as this atom (it is one character of
\* the model strings like every other element)
BackTick == "BACKTICK"

JsonFence == <<BackTick, BackTick, BackTick, "j", "s", "o", "n">>

Fence == <<BackTick, BackTick, BackTick>>

\* re.sub(r'```json\s*', '', result): scanning from the left, every
\* occurrence of ```json is removed with the whitespace that follows it
RECURSIVE SubJsonFenceFrom(_, _, _)
SubJsonFenceFrom(s, i, occ) ==
    IF \E o \in occ : o >= i
    THEN LET o == MinOf({x \in occ : x >= i})
         IN  SubSeq(s, i, o - 1)
             \o SubJsonFenceFrom(s, SkipClass(s, o + Len(JsonFence), PyWhitespace), occ)
    ELSE SubSeq(s, i, Len(s))

SubJsonFence(s) ==
    SubJsonFenceFrom(s, 1, {i \in 1..Len(s) : MatchAt(s, i, JsonFence)})

\* re.sub(r'```\s*$', '', result): the leftmost ``` that is followed by
\* whitespace only up to the end of the string; the match runs to the end
SubTrailingFence(s) ==
    LET starts == {i \in 1..Len(s) :
                     /\ MatchAt(s, i, Fence)
                     /\ SkipClass(s, i + Len(Fence), PyWhitespace) = Len(s) + 1}
    IN  IF starts = {} THEN s ELSE SubSeq(s, 1, MinOf(starts) - 1)

\* re.search(r'\{.*\}', result, re.DOTALL) and json_match.group(0):
\* from the first '{' to the last '}' after it; the string itself if no match
BraceSpan(s) ==
    LET opens  == {i \in 1..Len(s) : s[i] = "{"}
        closes == {i \in 1..Len(s) : s[i] = "}"}
    IN  IF opens # {} /\ closes # {} /\ MaxOf(closes) > MinOf(opens)
        THEN SubSeq(s, MinOf(opens), MaxOf(closes))
        ELSE s

Sanitize(raw) == BraceSpan(SubTrailingFence(SubJsonFence(Strip(raw))))

(***************************************************************************)
(* json.loads (agents.py 120): the decoder of the standard library, on     *)
(* character sequences.  A decoded value is a record                       *)
(*   type  : "obj", "arr", "str", "num" or "lit"                           *)
(*   canon : its compact JSON text (keys in insertion order, a repeated    *)
(*           key keeping its last value, as a dict does)                   *)
(*   str   : the decoded characters when it is a string                    *)
(*   items : for a dict, its pairs [key, type, canon, str] in insertion     *)
(*           order                                                         *)
(***************************************************************************)
At(s, i) == IF i \in 1..Len(s) THEN s[i] ELSE ""

PyItem(key, val) ==
    [key |-> key, type |-> val.type, canon |-> val.canon, str |-> val.str]

NoItems == <<>>

\* the keys of a dict
Keys(val) == {val.items[n].key : n \in 1..Len(val.items)}

\* d[key] of a dict that has the key
Get(val, key) == val.items[CHOOSE n \in 1..Len(val.items) : val.items[n].key = key]

PyVal(type, canon, str, items) ==
    [type |-> type, canon |-> canon, str |-> str, items |-> items]

ParseFail ==
    [ok |-> FALSE, pos |-> 0, val |-> PyVal("", <<>>, <<>>, NoItems)]

Parsed(pos, val) == [ok |-> TRUE, pos |-> pos, val |-> val]

\* the character a backslash escape stands for (decoder.BACKSLASH)
Unescape(c) ==
    CASE c = "b" -> "BACKSPACE"
      [] c = "f" -> "\f"
      [] c = "n" -> "\n"
      [] c = "r" -> "\r"
      [] c = "t" -> "\t"
      [] OTHER   -> c

SimpleEscapes == {"\"", "\\", "/", "b", "f", "n", "r", "t"}

StringFail == [ok |-> FALSE, pos |-> 0, str |-> <<>>]

\* the characters of s that py_scanstring copies as they are
PlainChars(s) == {s[k] : k \in 1..Len(s)} \ ({"\"", "\\"} \cup ControlChars)

\* py_scanstring from index i, after the opening quote, with acc decoded so
\* far; a \uXXXX escape decodes to one character, whose code point is not
\* distinguished.  ScanStringAt is the step at j, the end of the plain run
\* that starts at i.
RECURSIVE ScanString(_, _, _)
ScanStringAt(s, acc, i, j) ==
    IF j > Len(s) THEN StringFail
    ELSE IF s[j] = "\""
    THEN [ok |-> TRUE, pos |-> j + 1, str |-> acc \o SubSeq(s, i, j - 1)]
    ELSE IF s[j] # "\\" THEN StringFail
    ELSE IF At(s, j + 1) \in SimpleEscapes
    THEN ScanString(s, j + 2, acc \o SubSeq(s, i, j - 1) \o <<Unescape(s[j + 1])>>)
    ELSE IF At(s, j + 1) = "u" /\ \A k \in 2..5 : At(s, j + k) \in HexDigits
    THEN ScanString(s, j + 6, acc \o SubSeq(s, i, j - 1) \o <<"UNICODE">>)
    ELSE StringFail

ScanString(s, i, acc) == ScanStringAt(s, acc, i, SkipClass(s, i, PlainChars(s)))

\* the JSON text of one decoded character (encoder.ESCAPE_DCT)
EncodeChar(c) ==
    CASE c = "\"" -> <<"\\", "\"">>
      [] c = "\\" -> <<"\\", "\\">>
      [] c = "\n" -> <<"\\", "n">>
      [] c = "\r" -> <<"\\", "r">>
      [] c = "\t" -> <<"\\", "t">>
      [] c = "\f" -> <<"\\", "f">>
      [] c = "BACKSPACE" -> <<"\\", "b">>
      [] OTHER    -> <<c>>

\* the characters of str that the encoder copies as they are
UnescapedChars(str) == {c \in {str[k] : k \in 1..Len(str)} : EncodeChar(c) = <<c>>}

\* the JSON text of str from index i; EncodeCharsAt is the step at j, the
\* end of the run of copied characters that starts at i
RECURSIVE EncodeChars(_, _)
EncodeCharsAt(str, i, j) ==
    SubSeq(str, i, j - 1)
        \o (IF j > Len(str) THEN <<>> ELSE EncodeChar(str[j]) \o EncodeChars(str, j + 1))

EncodeChars(str, i) == EncodeCharsAt(str, i, SkipClass(str, i, UnescapedChars(str)))

EncodeString(str) == <<"\"">> \o EncodeChars(str, 1) \o <<"\"">>

PyStr(str) == PyVal("str", EncodeString(str), str, NoItems)

\* NUMBER_RE = (-?(?:0|[1-9]\d*))(\.\d+)?([eE][-+]?\d+)? matched at i: the
\* index after the match, 0 if there is none.  The exponent, whose digits
\* would start at d, is taken only if a digit is there.
NumberExpDigits(s, e, d) == IF At(s, d) \in Digits THEN SkipClass(s, d, Digits) ELSE e

NumberExp(s, e) ==
    IF At(s, e) \in {"e", "E"}
    THEN NumberExpDigits(s, e, IF At(s, e + 1) \in {"+", "-"} THEN e + 2 ELSE e + 1)
    ELSE e

\* the fraction after the integer part that ends before e
NumberFrac(s, e) ==
    IF At(s, e) = "." /\ At(s, e + 1) \in Digits
    THEN NumberExp(s, SkipClass(s, e + 1, Digits))
    ELSE NumberExp(s, e)

\* the integer part at a, after the sign
NumberInt(s, a) ==
    IF At(s, a) = "0" THEN NumberFrac(s, a + 1)
    ELSE IF At(s, a) \in Digits THEN NumberFrac(s, SkipClass(s, a, Digits))
    ELSE 0

NumberEnd(s, i) == NumberInt(s, IF At(s, i) = "-" THEN i + 1 ELSE i)

\* the constants the scanner accepts, in the order it tries them: null, true
\* and false before a number, the three float constants after it
Literals ==
    << <<"n", "u", "l", "l">>,
       <<"t", "r", "u", "e">>,
       <<"f", "a", "l", "s", "e">>,
       <<"N", "a", "N">>,
       <<"I", "n", "f", "i", "n", "i", "t", "y">>,
       <<"-", "I", "n", "f", "i", "n", "i", "t", "y">> >>

\* the JSON text of the pairs of a dict
RECURSIVE MembersCanon(_, _)
MembersCanon(items, i) ==
    IF i > Len(items) THEN <<>>
    ELSE (IF i > 1 THEN <<",">> ELSE <<>>)
         \o EncodeString(items[i].key) \o <<":">> \o items[i].canon
         \o MembersCanon(items, i + 1)

MakeDict(items) ==
    PyVal("obj", <<"{">> \o MembersCanon(items, 1) \o <<"}">>, <<>>, items)

\* d[key] = val on the pairs collected so far: a key that is already there
\* keeps its place and takes the new value
PutItem(items, key, val) ==
    IF \E n \in 1..Len(items) : items[n].key = key
    THEN [items EXCEPT ![CHOOSE n \in 1..Len(items) : items[n].key = key] =
                           PyItem(key, val)]
    ELSE Append(items, PyItem(key, val))

RECURSIVE ParseValue(_, _)
RECURSIVE ParseMembers(_, _, _)
RECURSIVE ParseElements(_, _, _)

\* JSONObject after a pair, at m: '}' ends the dict, ',' brings the next pair
MemberEnd(s, items, m) ==
    IF At(s, m) = "}" THEN Parsed(m + 1, MakeDict(items))
    ELSE IF At(s, m) = ","
    THEN ParseMembers(s, SkipClass(s, m + 1, JsonWhitespace), items)
    ELSE ParseFail

\* JSONObject with the value v of the key k scanned
MemberValue(s, items, k, v) ==
    IF ~v.ok THEN ParseFail
    ELSE MemberEnd(s, PutItem(items, k, v.val), SkipClass(s, v.pos, JsonWhitespace))

\* JSONObject after the key k, at c: the ':' and the value
MemberColon(s, items, k, c) ==
    IF At(s, c) # ":" THEN ParseFail
    ELSE MemberValue(s, items, k, ParseValue(s, SkipClass(s, c + 1, JsonWhitespace)))

\* JSONObject with the string key scanned
MemberKey(s, items, key) ==
    IF ~key.ok THEN ParseFail
    ELSE MemberColon(s, items, key.str, SkipClass(s, key.pos, JsonWhitespace))

\* JSONObject: the pairs after '{', from the opening quote of a key at j
ParseMembers(s, j, items) ==
    IF At(s, j) # "\"" THEN ParseFail
    ELSE MemberKey(s, items, ScanString(s, j + 1, <<>>))

PyList(canon) == PyVal("arr", <<"[">> \o canon \o <<"]">>, <<>>, NoItems)

\* JSONArray after a value, at m: ']' ends the list, ',' brings the next value
ElementEnd(s, canon, m) ==
    IF At(s, m) = "]" THEN Parsed(m + 1, PyList(canon))
    ELSE IF At(s, m) = ","
    THEN ParseElements(s, SkipClass(s, m + 1, JsonWhitespace), canon)
    ELSE ParseFail

\* JSONArray with the value v scanned, canon being the text of the values
\* before it
ElementValue(s, canon, v) ==
    IF ~v.ok THEN ParseFail
    ELSE ElementEnd(s, IF canon = <<>> THEN v.val.canon
                       ELSE canon \o <<",">> \o v.val.canon,
                    SkipClass(s, v.pos, JsonWhitespace))

\* JSONArray: the values after '[', from the first character of a value at j
ParseElements(s, j, canon) == ElementValue(s, canon, ParseValue(s, j))

\* JSONObject at j, after '{' and whitespace
ParseObject(s, j) ==
    IF At(s, j) = "}" THEN Parsed(j + 1, MakeDict(NoItems))
    ELSE ParseMembers(s, j, NoItems)

\* JSONArray at j, after '[' and whitespace
ParseArray(s, j) ==
    IF At(s, j) = "]" THEN Parsed(j + 1, PyList(<<>>))
    ELSE ParseElements(s, j, <<>>)

ParsedString(str) ==
    IF str.ok THEN Parsed(str.pos, PyStr(str.str)) ELSE ParseFail

\* which of Literals[lo..hi] stands at i, 0 if none
LiteralAt(s, i, lo, hi) ==
    IF \E n \in lo..hi : MatchAt(s, i, Literals[n])
    THEN CHOOSE n \in lo..hi : MatchAt(s, i, Literals[n])
    ELSE 0

\* scanner._scan_once at i for what is not a string, a dict or a list: lit,
\* num and flt are what LiteralAt and NumberEnd found there
ParseScalar(s, i, lit, num, flt) ==
    IF lit # 0
    THEN Parsed(i + Len(Literals[lit]), PyVal("lit", Literals[lit], <<>>, NoItems))
    ELSE IF num # 0
    THEN Parsed(num, PyVal("num", SubSeq(s, i, num - 1), <<>>, NoItems))
    ELSE IF flt # 0
    THEN Parsed(i + Len(Literals[flt]), PyVal("num", Literals[flt], <<>>, NoItems))
    ELSE ParseFail

\* scanner._scan_once at index i
ParseValue(s, i) ==
    IF At(s, i) = "\"" THEN ParsedString(ScanString(s, i + 1, <<>>))
    ELSE IF At(s, i) = "{" THEN ParseObject(s, SkipClass(s, i + 1, JsonWhitespace))
    ELSE IF At(s, i) = "[" THEN ParseArray(s, SkipClass(s, i + 1, JsonWhitespace))
    ELSE ParseScalar(s, i, LiteralAt(s, i, 1, 3), NumberEnd(s, i), LiteralAt(s, i, 4, 6))

\* json.loads(s) with the value v scanned: nothing but whitespace follows
JsonLoadsEnd(s, v) ==
    IF v.ok /\ SkipClass(s, v.pos, JsonWhitespace) = Len(s) + 1 THEN v ELSE ParseFail

\* json.loads(s): one value with whitespace around it and nothing else;
\* ok = FALSE is json.JSONDecodeError
JsonLoads(s) == JsonLoadsEnd(s, ParseValue(s, SkipClass(s, 1, JsonWhitespace)))

(***************************************************************************)
(* FieldExtractorAgent.process (agents.py 98-140)                          *)
(***************************************************************************)
KeyError == <<"e", "r", "r", "o", "r">>

KeyRawResponse == <<"r", "a", "w", "_", "r", "e", "s", "p", "o", "n", "s", "e">>

KeyParsedFields == <<"p", "a", "r", "s", "e", "d", "_", "f", "i", "e", "l", "d", "s">>

KeyDate == <<"d", "a", "t", "e">>

KeyTitle == <<"t", "i", "t", "l", "e">>

KeyAuthor == <<"a", "u", "t", "h", "o", "r">>

KeyRecipient == <<"r", "e", "c", "i", "p", "i", "e", "n", "t">>

KeyMainPoints == <<"m", "a", "i", "n", "_", "p", "o", "i", "n", "t", "s">>

KeySummary == <<"s", "u", "m", "m", "a", "r", "y">>

SchemaKeys == {KeyDate, KeyTitle, KeyAuthor, KeyRecipient, KeyMainPoints, KeySummary}

\* "Failed to parse JSON response" (agents.py 127)
ErrorText ==
    <<"F", "a", "i", "l", "e", "d", " ", "t", "o", " ", "p", "a", "r", "s", "e", " ", "J", "S", "O", "N", " ", "r", "e", "s", "p", "o", "n", "s", "e">>

\* the 200 of result[:200] and of len(result) > 200 (agents.py 128)
RawLimit == 200

Ellipsis == <<".", ".", ".">>

\* a plausible slip: the comparison is >= instead of >
RawResponseOffByOne(s) ==
    IF Len(s) >= RawLimit THEN SubSeq(s, 1, RawLimit) \o Ellipsis ELSE s

\* result[:200] + "..." if len(result) > 200 else result
RawResponse(s) ==
    IF Len(s) > RawLimit THEN SubSeq(s, 1, RawLimit) \o Ellipsis ELSE s

PyNull == PyVal("lit", Literals[1], <<>>, NoItems)

PyEmptyList == PyList(<<>>)

\* the "parsed_fields" dict literal (agents.py 129-136)
ParsedFieldsDefault ==
    MakeDict(<<PyItem(KeyDate, PyNull), PyItem(KeyTitle, PyNull),
               PyItem(KeyAuthor, PyNull), PyItem(KeyRecipient, PyNull),
               PyItem(KeyMainPoints, PyEmptyList), PyItem(KeySummary, PyNull)>>)

\* the dict returned on json.JSONDecodeError (agents.py 126-137)
ErrorRecord(s) ==
    MakeDict(<<PyItem(KeyError, PyStr(ErrorText)),
               PyItem(KeyRawResponse, PyStr(RawResponse(s))),
               PyItem(KeyParsedFields, ParsedFieldsDefault)>>)

\* what a call that did not return leaves in place of a value
PyNone == PyVal("none", <<>>, <<>>, NoItems)

\* the outcome of self.chain.invoke: the text the model produced, or a failure
LLMText(text) == [ok |-> TRUE, text |-> text]

LLMFailure == [ok |-> FALSE, text |-> <<>>]

\* a plausible slip: the JSONDecodeError is not caught by the inner except
\* and reaches the outer one
ParseOutcomeStrict(result, parsed) ==
    IF parsed.ok THEN [raised |-> FALSE, value |-> parsed.val]
    ELSE [raised |-> TRUE, value |-> PyNone]

\* lines 118-137: the parsed value, or the error record on JSONDecodeError
ParseOutcome(result, parsed) ==
    IF parsed.ok THEN [raised |-> FALSE, value |-> parsed.val]
    ELSE [raised |-> FALSE, value |-> ErrorRecord(result)]

\* lines 118-137 on the sanitized text
ProcessSanitized(result) == ParseOutcome(result, JsonLoads(result))

\* process(text): raised = TRUE is the Exception of line 140; the text given
\* to the prompt reaches this code only through the model's output
FieldExtractorProcess(llm) ==
    IF ~llm.ok THEN [raised |-> TRUE, value |-> PyNone]
    ELSE ProcessSanitized(Sanitize(llm.text))

(***************************************************************************)
(* Inputs                                                                  *)
(***************************************************************************)
\* how many times the Extract button is clicked in a session
MaxRuns == 2

\* longest prose the model puts before or after its answer
MaxProse == 1

\* what ExtractorAgent.process can return for the uploaded PDFs
Texts == {"text1", "text2"}

\* what the summarizer's chain can return
Summaries == {"summary1", "summary2"}

\* the object of end-to-end scenario B
MemoObject ==
    <<"{", "\"", "d", "a", "t", "e", "\"", ":", "\"", "2", "0", "2", "4",
      "-", "0", "3", "-", "2", "0", "\"", ",", "\"", "t", "i", "t", "l",
      "e", "\"", ":", "\"", "M", "e", "m", "o", "\"", ",", "\"", "a", "u",
      "t", "h", "o", "r", "\"", ":", "\"", "A", "\"", ",", "\"", "r", "e",
      "c", "i", "p", "i", "e", "n", "t", "\"", ":", "\"", "B", "\"", ",",
      "\"", "m", "a", "i", "n", "_", "p", "o", "i", "n", "t", "s", "\"",
      ":", "[", "\"", "x", "\"", ",", "\"", "y", "\"", "]", ",", "\"", "s",
      "u", "m", "m", "a", "r", "y", "\"", ":", "\"", "s", "\"", "}">>

TitleObject == <<"{", "\"", "t", "i", "t", "l", "e", "\"", ":", "\"", "M", "\"", "}">>

SpacedObject == <<"{", " ", "\"", "d", "a", "t", "e", "\"", " ", ":", " ", "n", "u", "l", "l", " ", "}">>

NestedObject == <<"{", "\"", "a", "\"", ":", "{", "\"", "b", "\"", ":", "[", "1", "]", "}", "}">>

ErrorKeyObject == <<"{", "\"", "e", "r", "r", "o", "r", "\"", ":", "1", "}">>

EmptyObject == <<"{", "}">>

\* model outputs that are one syntactically valid JSON object
ValidObjects ==
    {MemoObject, TitleObject, SpacedObject, NestedObject, ErrorKeyObject, EmptyObject}

\* valid JSON that is not an object
NonObjectJson == {<<"[", "1", "]">>, <<"4", "2">>, <<"n", "u", "l", "l">>}

\* the refusal of end-to-end scenario C
Refusal == <<"S", "o", "r", "r", "y", ",", " ", "I", " ", "c", "a", "n", "n", "o", "t", " ", "c", "o", "m", "p", "l", "y", ".">>

\* model outputs that are not JSON, or malformed JSON
MalformedBodies ==
    {Refusal, <<"{", "\"", "a", "\"", ":", "}">>, <<"{", "\"", "a", "\"", ":", "1">>, <<"{", "a", "}">>, <<>>}

\* a run of n letters
Letters(n) == SubSeq([k \in 1..n |-> "x"], 1, n)

\* malformed outputs around the 200-character limit of raw_response
LongBodies ==
    {Letters(n) : n \in (RawLimit - 1)..(RawLimit + 2)}
        \cup {<<"{">> \o Letters(n) \o <<"}">> : n \in (RawLimit - 3)..(RawLimit - 1)}

ProseChars == {"x", " ", "{", "}"}

\* the prose of at most n characters
Prose(n) == UNION {[1..m -> ProseChars] : m \in 0..n}

\* what may stand between the prose and the answer
OpenFences ==
    {<<>>, JsonFence \o <<"\n">>, Fence \o <<"\n">>}

CloseFences ==
    {<<>>, <<"\n">> \o Fence, Fence \o <<"\n">>}

PartsText(p) == p.pre \o p.open \o p.body \o p.close \o p.post

\* the model outputs given to FieldExtractorAgent.process on its own
FEParts ==
    [pre : Prose(MaxProse), open : OpenFences,
     body : ValidObjects \cup NonObjectJson \cup MalformedBodies,
     close : CloseFences, post : Prose(MaxProse)]
        \cup [pre : {<<>>}, open : OpenFences, body : LongBodies,
              close : CloseFences, post : {<<>>}]

\* the outcomes of the field extractor's chain in a pipeline run
PipelineLLM ==
    {LLMFailure,
     LLMText(JsonFence \o <<"\n">> \o MemoObject \o <<"\n">> \o Fence),
     LLMText(Refusal),
     LLMText(<<"{", "a", "}">>)}

(***************************************************************************)
(* State                                                                   *)
(***************************************************************************)
VARIABLES
    pc,                 \* where the Extract handler of main stands (a line of app.py)
    processing_status,  \* st.session_state.processing_status
    results,            \* st.session_state.results
    files,              \* the temporary files that exist on disk
    pdf_path,           \* main's pdf_path, 0 for None
    extracted_text,     \* the locals of app.process_document
    summary,
    fields,
    message,            \* what the handler last showed: st.success or st.error
    runs,               \* the clicks on Extract so far
    run,                \* the worker calls of the current run and what they returned
    last_ok,            \* the values the workers returned in the last run that succeeded
    dp,                 \* a call of DocumentProcessor.process_document
    fe_pc,              \* a call of FieldExtractorAgent.process on its own
    fe_in,
    fe_out

vars ==
    <<pc, processing_status, results, files, pdf_path, extracted_text, summary,
      fields, message, runs, run, last_ok, dp, fe_pc, fe_in, fe_out>>

appVars ==
    <<pc, processing_status, results, files, pdf_path, extracted_text, summary,
      fields, message, runs, run, last_ok>>

feVars == <<fe_pc, fe_in, fe_out>>

Stages == <<"text_extraction", "summarization", "field_extraction">>

StageSet == {Stages[n] : n \in 1..Len(Stages)}

\* the processing_status of main lines 88-92
PendingStatus ==
    [st \in StageSet |-> [status |-> "pending", progress |-> 0]]

\* the processing_status of main lines 115-119
ResetStatus ==
    [st \in StageSet |->
        IF st = "text_extraction" THEN [status |-> "in_progress", progress |-> 0]
        ELSE [status |-> "pending", progress |-> 0]]

\* st.session_state.results = None
NoResults ==
    [set |-> FALSE, extracted_text |-> "", summary |-> "", fields |-> PyNone]

\* a plausible slip: two values of the dict are exchanged
ResultDictSwapped(text, summ, flds) ==
    [set |-> TRUE, extracted_text |-> summ, summary |-> text, fields |-> flds]

\* the dict process_document returns (app.py 73-77, agents.py 167-171)
ResultDict(text, summ, flds) ==
    [set |-> TRUE, extracted_text |-> text, summary |-> summ, fields |-> flds]

NoRun ==
    [called |-> {}, returned |-> {}, raised |-> {}, text |-> "", summary |-> "",
     fields |-> PyNone, llm |-> LLMFailure]

DPIdle ==
    [pc |-> "idle", extracted_text |-> "", summary |-> "", fields |-> PyNone,
     called |-> {}, raised |-> {}, result |-> NoResults]

NoParts == [pre |-> <<>>, open |-> <<>>, body |-> <<>>, close |-> <<>>, post |-> <<>>]

NoOutcome == [raised |-> FALSE, value |-> PyNone]

\* the session after the first execution of main (lines 84-93), no click yet
Init ==
    /\ pc = "idle"
    /\ processing_status = PendingStatus
    /\ results = NoResults
    /\ files = {}
    /\ pdf_path = 0
    /\ extracted_text = ""
    /\ summary = ""
    /\ fields = PyNone
    /\ message = "none"
    /\ runs = 0
    /\ run = NoRun
    /\ last_ok = NoResults
    /\ dp = DPIdle
    /\ fe_pc = "off"
    /\ fe_in = [parts |-> NoParts, llm |-> LLMFailure]
    /\ fe_out = NoOutcome

(***************************************************************************)
(* The Extract handler of main (app.py 110-138) and process_document       *)
(* (app.py 39-77), one step per statement                                  *)
(***************************************************************************)
\* st.button("Extract") is clicked: the try block is entered
ClickExtract ==
    /\ pc = "idle"
    /\ dp.pc = "idle"
    /\ runs < MaxRuns
    /\ pc' = "L115"
    /\ runs' = runs + 1
    /\ run' = NoRun
    /\ UNCHANGED <<processing_status, results, files, pdf_path, extracted_text,
                   summary, fields, message, last_ok, dp, feVars>>

\* lines 115-119
ResetProcessingStatus ==
    /\ pc = "L115"
    /\ processing_status' = ResetStatus
    /\ pc' = "L122"
    /\ UNCHANGED <<results, files, pdf_path, extracted_text, summary, fields,
                   message, runs, run, last_ok, dp, feVars>>

\* where the handler goes after save_uploaded_file returned path
AfterSave(path) == IF path # 0 THEN "L44" ELSE "idle"

\* save_uploaded_file returns the name of the file it wrote (lines 22-25);
\* tempfile gives every file a fresh name, here the number of the click
SaveUploadedFile ==
    /\ pc = "L122"
    /\ files' = files \cup {runs}
    /\ pdf_path' = runs
    /\ pc' = AfterSave(runs)
    /\ UNCHANGED <<processing_status, results, extracted_text, summary, fields,
                   message, runs, run, last_ok, dp, feVars>>

\* save_uploaded_file fails and returns None (lines 26-29): NamedTemporaryFile
\* raised and there is no file, or the write raised and the file, opened with
\* delete=False, stays
SaveUploadedFileFails ==
    /\ pc = "L122"
    /\ files' \in {files, files \cup {runs}}
    /\ pdf_path' = 0
    /\ message' = "error_saving"
    /\ pc' = AfterSave(0)
    /\ UNCHANGED <<processing_status, results, extracted_text, summary, fields,
                   runs, run, last_ok, dp, feVars>>

\* the assignments to processing_status in process_document: the stage, the
\* key, the value, and the statement that follows
AssignAt ==
    [L44 |-> [stage |-> "text_extraction", key |-> "status", status |-> "in_progress", progress |-> 0, next |-> "L45"],
     L45 |-> [stage |-> "text_extraction", key |-> "progress", status |-> "", progress |-> 0, next |-> "L47"],
     L47 |-> [stage |-> "text_extraction", key |-> "progress", status |-> "", progress |-> 50, next |-> "L48"],
     L50 |-> [stage |-> "text_extraction", key |-> "progress", status |-> "", progress |-> 100, next |-> "L51"],
     L51 |-> [stage |-> "text_extraction", key |-> "status", status |-> "completed", progress |-> 0, next |-> "L54"],
     L54 |-> [stage |-> "summarization", key |-> "status", status |-> "in_progress", progress |-> 0, next |-> "L55"],
     L55 |-> [stage |-> "summarization", key |-> "progress", status |-> "", progress |-> 0, next |-> "L57"],
     L57 |-> [stage |-> "summarization", key |-> "progress", status |-> "", progress |-> 50, next |-> "L58"],
     L60 |-> [stage |-> "summarization", key |-> "progress", status |-> "", progress |-> 100, next |-> "L61"],
     L61 |-> [stage |-> "summarization", key |-> "status", status |-> "completed", progress |-> 0, next |-> "L64"],
     L64 |-> [stage |-> "field_extraction", key |-> "status", status |-> "in_progress", progress |-> 0, next |-> "L65"],
     L65 |-> [stage |-> "field_extraction", key |-> "progress", status |-> "", progress |-> 0, next |-> "L67"],
     L67 |-> [stage |-> "field_extraction", key |-> "progress", status |-> "", progress |-> 50, next |-> "L68"],
     L70 |-> [stage |-> "field_extraction", key |-> "progress", status |-> "", progress |-> 100, next |-> "L71"],
     L71 |-> [stage |-> "field_extraction", key |-> "status", status |-> "completed", progress |-> 0, next |-> "L73"]]

\* a plausible slip: the "completed" of lines 51, 61 and 71 is not stored
SetStatusDropsCompleted(ps, a) ==
    [ps EXCEPT ![a.stage] =
        IF a.key = "status"
        THEN (IF a.status = "completed" THEN @ ELSE [@ EXCEPT !.status = a.status])
        ELSE [@ EXCEPT !.progress = a.progress]]

\* a plausible slip: storing a status also clears the progress
SetStatusClearsProgress(ps, a) ==
    [ps EXCEPT ![a.stage] =
        IF a.key = "status" THEN [status |-> a.status, progress |-> 0]
        ELSE [@ EXCEPT !.progress = a.progress]]

\* st.session_state.processing_status[stage][key] = value
SetStatus(ps, a) ==
    [ps EXCEPT ![a.stage] =
        IF a.key = "status" THEN [@ EXCEPT !.status = a.status]
        ELSE [@ EXCEPT !.progress = a.progress]]

\* one of the assignments of lines 44-47, 50-57, 60-67, 70-71
AssignStatus ==
    /\ pc \in DOMAIN AssignAt
    /\ processing_status' = SetStatus(processing_status, AssignAt[pc])
    /\ pc' = AssignAt[pc].next
    /\ UNCHANGED <<results, files, pdf_path, extracted_text, summary, fields,
                   message, runs, run, last_ok, dp, feVars>>

\* the record of a worker being called and of how the call ended
Called(r, st) == [r EXCEPT !.called = @ \cup {st}]

Returned(r, st) == [Called(r, st) EXCEPT !.returned = @ \cup {st}]

Raised(r, st) == [Called(r, st) EXCEPT !.raised = @ \cup {st}]

\* line 48: processor.extractor.process(pdf_path) returns the text
ExtractorReturns ==
    /\ pc = "L48"
    /\ \E t \in Texts :
          /\ extracted_text' = t
          /\ run' = [Returned(run, "text_extraction") EXCEPT !.text = t]
    /\ pc' = "L50"
    /\ UNCHANGED <<processing_status, results, files, pdf_path, summary, fields,
                   message, runs, last_ok, dp, feVars>>

\* a plausible slip: the exception is swallowed and the pipeline goes on
ExceptionSwallowed == "L50"

\* where control goes when a statement inside the try block of main raises
ExceptionTarget == "L136"

\* line 48: the extractor raises (agents.py 35); nothing catches it before
\* the except clause of main
ExtractorRaises ==
    /\ pc = "L48"
    /\ run' = Raised(run, "text_extraction")
    /\ pc' = ExceptionTarget
    /\ UNCHANGED <<processing_status, results, files, pdf_path, extracted_text,
                   summary, fields, message, runs, last_ok, dp, feVars>>

\* line 58: processor.summarizer.process(extracted_text) returns
SummarizerReturns ==
    /\ pc = "L58"
    /\ \E sm \in Summaries :
          /\ summary' = sm
          /\ run' = [Returned(run, "summarization") EXCEPT !.summary = sm]
    /\ pc' = "L60"
    /\ UNCHANGED <<processing_status, results, files, pdf_path, extracted_text,
                   fields, message, runs, last_ok, dp, feVars>>

\* line 58: the summarizer raises (agents.py 62)
SummarizerRaises ==
    /\ pc = "L58"
    /\ run' = Raised(run, "summarization")
    /\ pc' = ExceptionTarget
    /\ UNCHANGED <<processing_status, results, files, pdf_path, extracted_text,
                   summary, fields, message, runs, last_ok, dp, feVars>>

\* the assignment of line 68 when the call returned out
FieldsAssigned(llm, out) ==
    /\ ~out.raised
    /\ fields' = out.value
    /\ run' = [Returned(run, "field_extraction") EXCEPT
                  !.fields = out.value, !.llm = llm]

\* line 68: processor.field_extractor.process(extracted_text) returns
FieldExtractorReturns ==
    /\ pc = "L68"
    /\ \E llm \in PipelineLLM : FieldsAssigned(llm, FieldExtractorProcess(llm))
    /\ pc' = "L70"
    /\ UNCHANGED <<processing_status, results, files, pdf_path, extracted_text,
                   summary, message, runs, last_ok, dp, feVars>>

\* line 68: the field extractor raises (agents.py 140)
FieldExtractorRaises ==
    /\ pc = "L68"
    /\ \E llm \in PipelineLLM :
          /\ FieldExtractorProcess(llm).raised
          /\ run' = [Raised(run, "field_extraction") EXCEPT !.llm = llm]
    /\ pc' = ExceptionTarget
    /\ UNCHANGED <<processing_status, results, files, pdf_path, extracted_text,
                   summary, fields, message, runs, last_ok, dp, feVars>>

\* lines 73-77 and the assignment of line 128
ReturnResults ==
    /\ pc = "L73"
    /\ results' = ResultDict(extracted_text, summary, fields)
    /\ pc' = "L131"
    /\ UNCHANGED <<processing_status, files, pdf_path, extracted_text, summary,
                   fields, message, runs, run, last_ok, dp, feVars>>

\* lines 131-135: os.unlink(pdf_path) and st.success; the handler is done
UnlinkAndSucceed ==
    /\ pc = "L131"
    /\ files' = files \ {pdf_path}
    /\ message' = "success"
    /\ last_ok' = ResultDict(run.text, run.summary, run.fields)
    /\ pc' = "idle"
    /\ pdf_path' = 0
    /\ extracted_text' = ""
    /\ summary' = ""
    /\ fields' = PyNone
    /\ run' = NoRun
    /\ UNCHANGED <<processing_status, results, runs, dp, feVars>>

\* a plausible slip: the except clause clears the stored results
ResultsCleared(r) == NoResults

\* what the except clause of main leaves in st.session_state.results
ResultsAfterException(r) == r

\* lines 136-138: the except clause logs and shows the error
HandleException ==
    /\ pc = "L136"
    /\ message' = "error_processing"
    /\ results' = ResultsAfterException(results)
    /\ pc' = "idle"
    /\ pdf_path' = 0
    /\ extracted_text' = ""
    /\ summary' = ""
    /\ fields' = PyNone
    /\ run' = NoRun
    /\ UNCHANGED <<processing_status, files, runs, last_ok, dp, feVars>>

(***************************************************************************)
(* DocumentProcessor.process_document (agents.py 150-174)                  *)
(***************************************************************************)
\* process_document(pdf_path) is called; the session's handler is not running
DPStart ==
    /\ pc = "idle"
    /\ dp.pc = "idle"
    /\ dp' = [DPIdle EXCEPT !.pc = "L156"]
    /\ UNCHANGED <<appVars, feVars>>

\* line 156: self.extractor.process(pdf_path) returns
DPExtractorReturns ==
    /\ dp.pc = "L156"
    /\ \E t \in Texts :
          dp' = [dp EXCEPT !.extracted_text = t, !.pc = "L160",
                           !.called = @ \cup {"text_extraction"}]
    /\ UNCHANGED <<appVars, feVars>>

\* where control goes when a statement inside the try block raises
DPExceptionTarget == "L173"

\* line 156: the extractor raises, caught at line 172
DPExtractorRaises ==
    /\ dp.pc = "L156"
    /\ dp' = [dp EXCEPT !.pc = DPExceptionTarget,
                        !.called = @ \cup {"text_extraction"},
                        !.raised = @ \cup {"text_extraction"}]
    /\ UNCHANGED <<appVars, feVars>>

\* line 160: self.summarizer.process(extracted_text) returns
DPSummarizerReturns ==
    /\ dp.pc = "L160"
    /\ \E sm \in Summaries :
          dp' = [dp EXCEPT !.summary = sm, !.pc = "L164",
                           !.called = @ \cup {"summarization"}]
    /\ UNCHANGED <<appVars, feVars>>

\* line 160: the summarizer raises
DPSummarizerRaises ==
    /\ dp.pc = "L160"
    /\ dp' = [dp EXCEPT !.pc = DPExceptionTarget,
                        !.called = @ \cup {"summarization"},
                        !.raised = @ \cup {"summarization"}]
    /\ UNCHANGED <<appVars, feVars>>

\* line 164: self.field_extractor.process(extracted_text) returns
DPFieldsAssigned(out) ==
    /\ ~out.raised
    /\ dp' = [dp EXCEPT !.fields = out.value, !.pc = "L167",
                        !.called = @ \cup {"field_extraction"}]

DPFieldExtractorReturns ==
    /\ dp.pc = "L164"
    /\ \E llm \in PipelineLLM : DPFieldsAssigned(FieldExtractorProcess(llm))
    /\ UNCHANGED <<appVars, feVars>>

\* line 164: the field extractor raises
DPFieldExtractorRaises ==
    /\ dp.pc = "L164"
    /\ \E llm \in PipelineLLM : FieldExtractorProcess(llm).raised
    /\ dp' = [dp EXCEPT !.pc = DPExceptionTarget,
                        !.called = @ \cup {"field_extraction"},
                        !.raised = @ \cup {"field_extraction"}]
    /\ UNCHANGED <<appVars, feVars>>

\* lines 167-171: the dict is returned
DPReturn ==
    /\ dp.pc = "L167"
    /\ dp' = [dp EXCEPT !.result = ResultDict(dp.extracted_text, dp.summary, dp.fields),
                        !.pc = "returned"]
    /\ UNCHANGED <<appVars, feVars>>

\* lines 172-174: the error is logged and raised again, wrapped
DPReraise ==
    /\ dp.pc = "L173"
    /\ dp' = [dp EXCEPT !.pc = "raised"]
    /\ UNCHANGED <<appVars, feVars>>

\* the caller has its result or its exception; the call is over
DPDone ==
    /\ dp.pc \in {"returned", "raised"}
    /\ dp' = DPIdle
    /\ UNCHANGED <<appVars, feVars>>

(***************************************************************************)
(* Specification of a session                                              *)
(***************************************************************************)
Next ==
    \/ ClickExtract
    \/ ResetProcessingStatus
    \/ SaveUploadedFile
    \/ SaveUploadedFileFails
    \/ AssignStatus
    \/ ExtractorReturns
    \/ ExtractorRaises
    \/ SummarizerReturns
    \/ SummarizerRaises
    \/ FieldExtractorReturns
    \/ FieldExtractorRaises
    \/ ReturnResults
    \/ UnlinkAndSucceed
    \/ HandleException
    \/ DPStart
    \/ DPExtractorReturns
    \/ DPExtractorRaises
    \/ DPSummarizerReturns
    \/ DPSummarizerRaises
    \/ DPFieldExtractorReturns
    \/ DPFieldExtractorRaises
    \/ DPReturn
    \/ DPReraise
    \/ DPDone

Spec == Init /\ [][Next]_vars

(***************************************************************************)
(* Specification of FieldExtractorAgent.process alone: one call for every  *)
(* outcome of the model call                                               *)
(***************************************************************************)
FEInputs ==
    {[parts |-> p, llm |-> LLMText(PartsText(p))] : p \in FEParts}
        \cup {[parts |-> NoParts, llm |-> LLMFailure]}

InitFE ==
    /\ pc = "idle"
    /\ processing_status = PendingStatus
    /\ results = NoResults
    /\ files = {}
    /\ pdf_path = 0
    /\ extracted_text = ""
    /\ summary = ""
    /\ fields = PyNone
    /\ message = "none"
    /\ runs = 0
    /\ run = NoRun
    /\ last_ok = NoResults
    /\ dp = DPIdle
    /\ fe_pc = "call"
    /\ fe_in \in FEInputs
    /\ fe_out = NoOutcome

\* the call ended with out: it returned or it raised
FEProcessEnds(out, raised) ==
    /\ out.raised = raised
    /\ fe_out' = out
    /\ fe_pc' = IF raised THEN "raised" ELSE "returned"

\* process returns (agents.py 122 or 126)
FEProcessReturns ==
    /\ fe_pc = "call"
    /\ FEProcessEnds(FieldExtractorProcess(fe_in.llm), FALSE)
    /\ UNCHANGED <<appVars, dp, fe_in>>

\* process raises (agents.py 140)
FEProcessRaises ==
    /\ fe_pc = "call"
    /\ FEProcessEnds(FieldExtractorProcess(fe_in.llm), TRUE)
    /\ UNCHANGED <<appVars, dp, fe_in>>

NextFE == FEProcessReturns \/ FEProcessRaises

SpecFE == InitFE /\ [][NextFE]_vars

(***************************************************************************)
(* Properties                                                              *)
(***************************************************************************)
Done == [status |-> "completed", progress |-> 100]

Untouched == [status |-> "pending", progress |-> 0]

Rank(status) ==
    CASE status = "pending" -> 0 [] status = "in_progress" -> 1 [] status = "completed" -> 2

\* the model's output did not parse as JSON after sanitizing
ParseFailed(llm) == llm.ok /\ ~JsonLoads(Sanitize(llm.text)).ok

\* C1: a worker of stage k > 1 is called only in a state where stage k - 1
\* has status "completed", in the first run and in every later one
C1_StageOrdering ==
    [][\A k \in 2..Len(Stages) :
          (Stages[k] \in run'.called /\ Stages[k] \notin run.called)
              => processing_status[Stages[k - 1]].status = "completed"]_vars

C1_Witness == runs = 2 /\ "field_extraction" \in run.called

\* C2: when the handler is done with a run of the pipeline, successful or
\* not, the temporary file of that run is not on disk
C2_TempFileRemoved ==
    (pc = "idle" /\ message \in {"success", "error_processing"}) => runs \notin files

\* the statuses a run shows that stopped in stage k
StoppedAt(k) ==
    /\ \A j \in 1..(k - 1) : processing_status[Stages[j]] = Done
    /\ processing_status[Stages[k]].status = "in_progress"
    /\ \A j \in (k + 1)..Len(Stages) : processing_status[Stages[j]] = Untouched

\* C3: when the worker of stage k raises, control is in the except clause
\* of the caller, no worker of a later stage was called, the earlier stages
\* are completed/100, stage k is in_progress and the later ones pending/0;
\* the statuses stay so when the handler is done.  The same for the calls of
\* DocumentProcessor.process_document, which has no statuses.
C3_RaiseAborts ==
    /\ \A k \in 1..Len(Stages) :
          Stages[k] \in run.raised =>
              /\ pc = "L136"
              /\ run.called = {Stages[j] : j \in 1..k}
              /\ run.raised = {Stages[k]}
              /\ StoppedAt(k)
    /\ (pc = "idle" /\ message = "error_processing")
          => \E k \in 1..Len(Stages) : StoppedAt(k)
    /\ \A k \in 1..Len(Stages) :
          Stages[k] \in dp.raised =>
              /\ dp.pc \in {"L173", "raised"}
              /\ dp.called = {Stages[j] : j \in 1..k}
              /\ ~dp.result.set

C3_Witness == pc = "L136" /\ "summarization" \in run.raised

\* C4: when process_document has returned, the three stages are
\* completed/100 and the stored dict holds what the three workers returned in
\* this run; the same for the dict DocumentProcessor.process_document returns
C4_SuccessPostcondition ==
    /\ pc = "L131" =>
          /\ \A st \in StageSet : processing_status[st] = Done
          /\ run.returned = StageSet
          /\ results.set
          /\ results.extracted_text = run.text
          /\ results.summary = run.summary
          /\ results.fields = run.fields
    /\ (pc = "idle" /\ message = "success") =>
          /\ \A st \in StageSet : processing_status[st] = Done
          /\ results = last_ok
    /\ dp.pc = "returned" =>
          /\ dp.called = StageSet
          /\ dp.result.set
          /\ dp.result.extracted_text = dp.extracted_text
          /\ dp.result.summary = dp.summary
          /\ dp.result.fields = dp.fields

C4_Witness == pc = "L131" /\ runs = 2 /\ last_ok.set /\ last_ok.extracted_text # run.text

\* the JSON text of the "parsed_fields" of an error record
NullFields ==
    <<"{", "\"", "d", "a", "t", "e", "\"", ":", "n", "u", "l", "l", ",",
      "\"", "t", "i", "t", "l", "e", "\"", ":", "n", "u", "l", "l", ",",
      "\"", "a", "u", "t", "h", "o", "r", "\"", ":", "n", "u", "l", "l",
      ",", "\"", "r", "e", "c", "i", "p", "i", "e", "n", "t", "\"", ":",
      "n", "u", "l", "l", ",", "\"", "m", "a", "i", "n", "_", "p", "o",
      "i", "n", "t", "s", "\"", ":", "[", "]", ",", "\"", "s", "u", "m",
      "m", "a", "r", "y", "\"", ":", "n", "u", "l", "l", "}">>

C6_SanitizerIsolatesObject ==
    (fe_pc = "returned" /\ fe_in.parts.body \in ValidObjects) =>
        /\ Sanitize(fe_in.llm.text) = fe_in.parts.body
        /\ fe_out.value = JsonLoads(fe_in.parts.body).val
        /\ KeyError \notin Keys(fe_out.value)

\* C7: every value returned is a mapping without the key "error" or a
\* mapping with exactly the keys error, raw_response and parsed_fields, and
\* it has the key "error" exactly when the sanitized output did not parse
C7_TwoShapes ==
    fe_pc = "returned" =>
        /\ fe_out.value.type = "obj"
        /\ \/ KeyError \notin Keys(fe_out.value)
           \/ Keys(fe_out.value) = {KeyError, KeyRawResponse, KeyParsedFields}
        /\ (KeyError \in Keys(fe_out.value)) <=> ParseFailed(fe_in.llm)

\* C8: within a run (after the reset of line 115) no status goes back, no
\* progress decreases, a stage is changed only when the stages before it
\* are completed, and a completed stage is not changed
C8_NoRegression ==
    [][pc # "L115" =>
          \A k \in 1..Len(Stages) :
              LET old == processing_status[Stages[k]]
                  new == processing_status'[Stages[k]]
              IN  /\ Rank(new.status) >= Rank(old.status)
                  /\ new.progress >= old.progress
                  /\ new # old =>
                        /\ old.status # "completed"
                        /\ \A j \in 1..(k - 1) :
                              processing_status[Stages[j]].status = "completed"]_vars

C8_Witness == runs = 2 /\ processing_status["field_extraction"].progress = 50

\* C9: the raw_response of an error record is the sanitized output when it
\* has at most 200 characters, and otherwise its first 200 characters and
\* "...", 203 characters in all
C9_RawResponseTruncated ==
    (fe_pc = "returned" /\ ParseFailed(fe_in.llm)) =>
        LET s  == Sanitize(fe_in.llm.text)
            rr == Get(fe_out.value, KeyRawResponse).str
        IN  /\ Len(rr) <= RawLimit + 3
            /\ Len(s) <= RawLimit => rr = s
            /\ Len(s) > RawLimit =>
                  /\ Len(rr) = RawLimit + 3
                  /\ SubSeq(rr, 1, RawLimit) = SubSeq(s, 1, RawLimit)
                  /\ SubSeq(rr, RawLimit + 1, RawLimit + 3) = <<".", ".", ".">>

C9_Witness ==
    /\ fe_pc = "returned"
    /\ ParseFailed(fe_in.llm)
    /\ Len(Sanitize(fe_in.llm.text)) > RawLimit

\* C10: the except clause leaves the stored results as they were, and
\* whenever the handler is done the stored results are those of the last
\* run that succeeded, or None
C10_FailedRunKeepsResults ==
    /\ [](pc = "idle" => results = last_ok)
    /\ [][pc = "L136" => results' = results]_vars

C10_Witness ==
    /\ pc = "idle"
    /\ message = "error_processing"
    /\ results.set
    /\ processing_status["summarization"].status = "in_progress"

=============================================================================
